---- MODULE Spec2Model ----
(***************************************************************************)
(* Model of ERNIE-Vil/model/vl_transformer_encoder.py: the two-stream      *)
(* Transformer encoder.  The functions of the file build a static graph:   *)
(* every layers.* call appends one operator to the program and returns the *)
(* variable it writes.  A program g is [ops, shapes]: the operators in the *)
(* order they were appended and the shape of every variable; a tensor is   *)
(* the index of its variable, None is 0.                                   *)
(*                                                                         *)
(* A function body is a chain of statements over a frame b = [g, l,        *)
(* raised]: the program, the function's locals by name, and the exception  *)
(* under way ("" when none).  A statement "dst = layers.op(src, ...)" is   *)
(* op(b, "dst", "src", ...).  Once an exception is raised the remaining    *)
(* statements of the frame do nothing.                                     *)
(***************************************************************************)
EXTENDS Integers, Sequences, FiniteSets, TLC

None == 0

EmptyProgram == [ops |-> <<>>, shapes |-> <<>>]

Rank(g, x) == Len(g.shapes[x])

\* Python truthiness of a value that is None or a Variable / zero or a number
Truthy(x) == x # 0

\* the frame of a call: its arguments by name
Frame(g, locals) == [g |-> g, l |-> ("None" :> None) @@ locals, raised |-> ""]

\* the shape of the variable a local names
Shape(b, n) == b.g.shapes[b.l[n]]

\* raise
Raise(b, what) == IF b.raised # "" THEN b ELSE [b EXCEPT !.raised = what]

\* dst = src
Assign(b, dst, src) ==
  IF b.raised # "" THEN b ELSE [b EXCEPT !.l = (dst :> b.l[src]) @@ b.l]

\* what a call hands back to its caller: dst = callee(...)
Ret(b, dst, r) ==
  [g |-> r.g, l |-> (dst :> r.out) @@ b.l, raised |-> r.raised]

(***************************************************************************)
(* Graph construction primitives (paddle.fluid.layers)                     *)
(***************************************************************************)

\* dst = a new variable of the given shape, written by a new operator
append_op(b, dst, type, srcs, name, attr, act, shape) ==
  IF b.raised # "" THEN b
  ELSE LET id == Len(b.g.shapes) + 1
       IN [b EXCEPT
             !.g = [ops |-> Append(b.g.ops,
                                   [type |-> type,
                                    ins |-> [i \in 1..Len(srcs) |-> b.l[srcs[i]]],
                                    out |-> id, name |-> name, attr |-> attr,
                                    act |-> act]),
                    shapes |-> Append(b.g.shapes, shape)],
             !.l = (dst :> id) @@ b.l]

\* layers.data: a feed variable
layers_data(b, dst, name, shape) ==
  append_op(b, dst, "data", <<>>, name, <<>>, "", shape)

\* layers.fc with num_flatten_dims=2: weight name + ".w_0", bias name + ".b_0"
layers_fc(b, dst, input, size, act, name) ==
  append_op(b, dst, "fc", <<input>>, name \o ".w_0", <<size, 2>>, act,
            <<Shape(b, input)[1], Shape(b, input)[2], size>>)

\* the shape layers.reshape gives: 0 copies the dimension of the input
ReshapeTo(xs, shape) ==
  [i \in 1..Len(shape) |-> IF shape[i] = 0 THEN xs[i] ELSE shape[i]]

\* layers.reshape(inplace=True) writes the input variable itself
layers_reshape_inplace(b, dst, x, shape) ==
  IF b.raised # "" THEN b
  ELSE [b EXCEPT
          !.g = [ops |-> Append(b.g.ops,
                                [type |-> "reshape2", ins |-> <<b.l[x]>>,
                                 out |-> b.l[x], name |-> "", attr |-> shape,
                                 act |-> ""]),
                 shapes |-> [b.g.shapes EXCEPT
                               ![b.l[x]] = ReshapeTo(Shape(b, x), shape)]],
          !.l = (dst :> b.l[x]) @@ b.l]

\* layers.reshape (inplace=False) writes a new variable
layers_reshape(b, dst, x, shape) ==
  append_op(b, dst, "reshape2", <<x>>, "", shape, "", ReshapeTo(Shape(b, x), shape))

\* layers.transpose: perm is 0-based as in the source
layers_transpose(b, dst, x, perm) ==
  append_op(b, dst, "transpose2", <<x>>, "", perm, "",
            [i \in 1..Len(perm) |-> Shape(b, x)[perm[i] + 1]])

\* layers.scale(x, scale=d_key ** -0.5): the factor is recorded by its base
layers_scale(b, dst, x, d_key) ==
  append_op(b, dst, "scale", <<x>>, "", <<d_key>>, "", Shape(b, x))

\* layers.matmul(x, y, transpose_y)
layers_matmul(b, dst, x, y, transpose_y) ==
  append_op(b, dst, "matmul", <<x, y>>, "", <<IF transpose_y THEN 1 ELSE 0>>, "",
            [i \in 1..Len(Shape(b, x)) |->
               IF i < Len(Shape(b, x)) THEN Shape(b, x)[i]
               ELSE IF transpose_y THEN Shape(b, y)[Len(Shape(b, y)) - 1]
               ELSE Shape(b, y)[Len(Shape(b, y))]])

\* Variable.__add__ (out + prev_out, product += attn_bias)
elementwise_add(b, dst, x, y) ==
  append_op(b, dst, "elementwise_add", <<x, y>>, "", <<>>, "", Shape(b, x))

layers_softmax(b, dst, x) ==
  append_op(b, dst, "softmax", <<x>>, "", <<>>, "", Shape(b, x))

\* layers.dropout(dropout_implementation="upscale_in_train", is_test=False)
layers_dropout(b, dst, x, dropout_prob, seed) ==
  append_op(b, dst, "dropout", <<x>>, "", <<dropout_prob, seed>>, "", Shape(b, x))

\* layers.layer_norm: scale name + "_layer_norm_scale", bias name + "_layer_norm_bias"
layers_layer_norm(b, dst, x, begin_norm_axis, name) ==
  append_op(b, dst, "layer_norm", <<x>>, name \o "_layer_norm_scale",
            <<begin_norm_axis>>, "", Shape(b, x))

\* layers.concat([x, y], axis=1)
layers_concat(b, dst, x, y) ==
  append_op(b, dst, "concat", <<x, y>>, "", <<1>>, "",
            [Shape(b, x) EXCEPT ![2] = Shape(b, x)[2] + Shape(b, y)[2]])

(***************************************************************************)
(* multi_head_attention and its nested helpers                             *)
(***************************************************************************)

\* cache=None, or the dict {"k": ..., "v": ...}
NoCache == [some |-> FALSE, k |-> None, v |-> None]

\* Add linear projection to queries, keys, and values.
compute_qkv(b, n_head, d_key, d_value, name) ==
  LET b1 == layers_fc(b, "q", "queries", d_key * n_head, "", name \o "_query_fc")
      b2 == layers_fc(b1, "k", "keys", d_key * n_head, "", name \o "_key_fc")
      b3 == layers_fc(b2, "v", "values", d_value * n_head, "", name \o "_value_fc")
  IN b3

\* a split that reshapes to [bs, len, hidden, n_head]
split_heads_swapped(b, dst, x, n_head) ==
  LET b1 == layers_reshape_inplace(b, "reshaped", x,
              <<0, 0, Shape(b, x)[Len(Shape(b, x))] \div n_head, n_head>>)
  IN layers_transpose(b1, dst, "reshaped", <<0, 2, 1, 3>>)

\* dst = __split_heads(x, n_head): reshape [bs, len, n_head * hidden] in
\* place to [bs, len, n_head, hidden], then transpose to [bs, n_head, len, hidden]
split_heads(b, dst, x, n_head) ==
  LET b1 == layers_reshape_inplace(b, "reshaped", x,
              <<0, 0, n_head, Shape(b, x)[Len(Shape(b, x))] \div n_head>>)
  IN layers_transpose(b1, dst, "reshaped", <<0, 2, 1, 3>>)

\* the transpose and reshape of __combine_heads
combine_4d(b, dst, x) ==
  LET b1 == layers_transpose(b, "trans_x", x, <<0, 2, 1, 3>>)
  IN layers_reshape_inplace(b1, dst, "trans_x",
            <<0, 0, Shape(b1, "trans_x")[3] * Shape(b1, "trans_x")[4]>>)

\* dst = __combine_heads(x): the reverse of __split_heads
combine_heads(b, dst, x) ==
  IF b.raised # "" THEN b
  ELSE IF Len(Shape(b, x)) = 3 THEN Assign(b, dst, x)
  ELSE IF Len(Shape(b, x)) # 4 THEN Raise(b, "ValueError")
  ELSE combine_4d(b, dst, x)

\* product += attn_bias, when attn_bias is given
sdpa_add_bias(b) ==
  IF Truthy(b.l["attn_bias"]) THEN elementwise_add(b, "product", "product", "attn_bias")
  ELSE b

\* weights = dropout(weights), when dropout_rate is not zero
sdpa_dropout(b, dropout_rate, seed) ==
  IF Truthy(dropout_rate) THEN layers_dropout(b, "weights", "weights", dropout_rate, seed)
  ELSE b

\* an attention that adds the bias to the weights, after the softmax
sdpa_bias_after_softmax(b, dst, q, k, v, d_key, dropout_rate, seed) ==
  LET b1 == layers_scale(b, "scaled_q", q, d_key)
      b2 == layers_matmul(b1, "product", "scaled_q", k, TRUE)
      b3 == layers_softmax(b2, "product", "product")
      b4 == sdpa_add_bias(b3)
      b5 == Assign(b4, "weights", "product")
      b6 == sdpa_dropout(b5, dropout_rate, seed)
  IN layers_matmul(b6, dst, "weights", v, FALSE)

\* dst = scaled_dot_product_attention(q, k, v, attn_bias, d_key, dropout_rate)
scaled_dot_product_attention(b, dst, q, k, v, d_key, dropout_rate, seed) ==
  LET b1 == layers_scale(b, "scaled_q", q, d_key)
      b2 == layers_matmul(b1, "product", "scaled_q", k, TRUE)
      b3 == sdpa_add_bias(b2)
      b4 == layers_softmax(b3, "weights", "product")
      b5 == sdpa_dropout(b4, dropout_rate, seed)
  IN layers_matmul(b5, dst, "weights", v, FALSE)

\* a cache update that concatenates but does not store
update_cache_no_store(b, d_model) ==
  LET b1 == layers_reshape(b, "cache_k_3d", "cache_k", <<0, 0, d_model>>)
      b2 == layers_concat(b1, "k", "cache_k_3d", "k")
      b3 == layers_reshape(b2, "cache_v_3d", "cache_v", <<0, 0, d_model>>)
      b4 == layers_concat(b3, "v", "cache_v_3d", "v")
  IN b4

\* k = cache["k"] = concat([reshape(cache["k"], [0, 0, d_model]), k], axis=1)
\* v = cache["v"] = concat([reshape(cache["v"], [0, 0, d_model]), v], axis=1)
update_cache(b, d_model) ==
  LET b1 == layers_reshape(b, "cache_k_3d", "cache_k", <<0, 0, d_model>>)
      b2 == layers_concat(b1, "k", "cache_k_3d", "k")
      b3 == Assign(b2, "cache_k", "k")
      b4 == layers_reshape(b3, "cache_v_3d", "cache_v", <<0, 0, d_model>>)
      b5 == layers_concat(b4, "v", "cache_v_3d", "v")
      b6 == Assign(b5, "cache_v", "v")
  IN b6

\* a rank check that forgets the values
all_3d_without_values(g, queries, keys, values) ==
  Rank(g, queries) = Rank(g, keys) /\ Rank(g, keys) = 3

\* len(queries.shape) == len(keys.shape) == len(values.shape) == 3
all_3d(g, queries, keys, values) ==
  Rank(g, queries) = Rank(g, keys) /\ Rank(g, keys) = Rank(g, values)
  /\ Rank(g, values) = 3

\* what multi_head_attention returns: proj_out, and the cache dict it was given
mha_return(b, cache) ==
  [g |-> b.g,
   out |-> IF b.raised = "" THEN b.l["proj_out"] ELSE None,
   cache |-> IF cache.some THEN [some |-> TRUE, k |-> b.l["cache_k"],
                                 v |-> b.l["cache_v"]]
             ELSE cache,
   raised |-> b.raised]

\* the body of multi_head_attention after the rank check
mha_body(b, d_key, d_value, d_model, n_head, dropout_rate, use_cache, seed, name) ==
  LET b1 == compute_qkv(b, n_head, d_key, d_value, name)
      b2 == IF use_cache THEN update_cache(b1, d_model) ELSE b1
      b3 == split_heads(b2, "_q", "q", n_head)
      b4 == split_heads(b3, "_k", "k", n_head)
      b5 == split_heads(b4, "_v", "v", n_head)
      b6 == scaled_dot_product_attention(b5, "ctx_multiheads", "_q", "_k", "_v",
                                         d_key, dropout_rate, seed)
      b7 == combine_heads(b6, "out", "ctx_multiheads")
      b8 == layers_fc(b7, "proj_out", "out", d_model, "", name \o "_output_fc")
  IN b8

multi_head_attention(g, queries, keys, values, attn_bias, d_key, d_value, d_model, n_head, dropout_rate, cache, seed, name) ==
  LET keys1 == IF keys = None THEN queries ELSE keys
      values1 == IF values = None THEN keys1 ELSE values
      b0 == Frame(g, "queries" :> queries @@ "keys" :> keys1 @@ "values" :> values1
                     @@ "attn_bias" :> attn_bias
                     @@ "cache_k" :> cache.k @@ "cache_v" :> cache.v)
  IN IF ~all_3d(g, queries, keys1, values1)
     THEN mha_return(Raise(b0, "ValueError"), cache)
     ELSE mha_return(mha_body(b0, d_key, d_value, d_model, n_head, dropout_rate,
                              cache.some, seed, name), cache)

\* dst = multi_head_attention(q, k, v, bias, ...) with cache=None
call_multi_head_attention(b, dst, q, k, v, bias, d_key, d_value, d_model, n_head, dropout_rate, seed, name) ==
  IF b.raised # "" THEN b
  ELSE Ret(b, dst, multi_head_attention(b.g, b.l[q], b.l[k], b.l[v], b.l[bias],
                     d_key, d_value, d_model, n_head, dropout_rate, NoCache,
                     seed, name))

(***************************************************************************)
(* positionwise_feed_forward                                               *)
(***************************************************************************)
ffn_dropout(b, dropout_rate, seed) ==
  IF Truthy(dropout_rate) THEN layers_dropout(b, "hidden", "hidden", dropout_rate, seed)
  ELSE b

ffn_body(b, d_inner_hid, d_hid, dropout_rate, hidden_act, seed, name) ==
  LET b1 == layers_fc(b, "hidden", "x", d_inner_hid, hidden_act, name \o "_fc_0")
      b2 == ffn_dropout(b1, dropout_rate, seed)
  IN layers_fc(b2, "out", "hidden", d_hid, "", name \o "_fc_1")

\* what a function that returns its local out returns
return_out(b) ==
  [g |-> b.g, out |-> IF b.raised = "" THEN b.l["out"] ELSE None, raised |-> b.raised]

positionwise_feed_forward(g, x, d_inner_hid, d_hid, dropout_rate, hidden_act, seed, name) ==
  return_out(ffn_body(Frame(g, "x" :> x), d_inner_hid, d_hid, dropout_rate,
                      hidden_act, seed, name))

\* dst = positionwise_feed_forward(x, ...)
call_positionwise_feed_forward(b, dst, x, d_inner_hid, d_hid, dropout_rate, hidden_act, seed, name) ==
  IF b.raised # "" THEN b
  ELSE Ret(b, dst, positionwise_feed_forward(b.g, b.l[x], d_inner_hid, d_hid,
                     dropout_rate, hidden_act, seed, name))

(***************************************************************************)
(* pre_post_process_layer                                                  *)
(***************************************************************************)

\* a loop body that adds prev_out and applies dropout unconditionally
process_cmd_step_unconditional(b, cmd, dropout_rate, seed, name) ==
  IF cmd = "a" THEN elementwise_add(b, "out", "out", "prev_out")
  ELSE IF cmd = "n"
  THEN layers_layer_norm(b, "out", "out", Len(Shape(b, "out")) - 1, name)
  ELSE IF cmd = "d" THEN layers_dropout(b, "out", "out", dropout_rate, seed)
  ELSE b

\* the body of "for cmd in process_cmd"
process_cmd_step(b, cmd, dropout_rate, seed, name) ==
  IF cmd = "a"
  THEN IF Truthy(b.l["prev_out"]) THEN elementwise_add(b, "out", "out", "prev_out")
                                  ELSE b
  ELSE IF cmd = "n"
  THEN layers_layer_norm(b, "out", "out", Len(Shape(b, "out")) - 1, name)
  ELSE IF cmd = "d"
  THEN IF Truthy(dropout_rate) THEN layers_dropout(b, "out", "out", dropout_rate, seed)
                               ELSE b
  ELSE b

\* for cmd in process_cmd: ...
RECURSIVE process_cmd_loop(_, _, _, _, _)
process_cmd_loop(b, process_cmd, dropout_rate, seed, name) ==
  IF process_cmd = <<>> THEN b
  ELSE process_cmd_loop(process_cmd_step(b, Head(process_cmd), dropout_rate, seed, name),
                        Tail(process_cmd), dropout_rate, seed, name)

pre_post_process_layer(g, prev_out, out, process_cmd, dropout_rate, seed, name) ==
  return_out(process_cmd_loop(Frame(g, "prev_out" :> prev_out @@ "out" :> out),
                              process_cmd, dropout_rate, seed, name))

\* pre_process_layer = partial(pre_post_process_layer, None)
pre_process_layer(g, out, process_cmd, dropout_rate, seed, name) ==
  pre_post_process_layer(g, None, out, process_cmd, dropout_rate, seed, name)

\* post_process_layer = pre_post_process_layer
post_process_layer(g, prev_out, out, process_cmd, dropout_rate, seed, name) ==
  pre_post_process_layer(g, prev_out, out, process_cmd, dropout_rate, seed, name)

\* dst = pre_process_layer(out, ...)
call_pre_process_layer(b, dst, out, process_cmd, dropout_rate, seed, name) ==
  IF b.raised # "" THEN b
  ELSE Ret(b, dst, pre_process_layer(b.g, b.l[out], process_cmd, dropout_rate,
                                     seed, name))

\* dst = post_process_layer(prev_out, out, ...)
call_post_process_layer(b, dst, prev_out, out, process_cmd, dropout_rate, seed, name) ==
  IF b.raised # "" THEN b
  ELSE Ret(b, dst, post_process_layer(b.g, b.l[prev_out], b.l[out], process_cmd,
                                      dropout_rate, seed, name))

(***************************************************************************)
(* encoder_co_layer and encoder_layer.  cfg is the record of the scalar    *)
(* arguments the callers hand through unchanged: the three dropout rates,  *)
(* hidden_act, preprocess_cmd, postprocess_cmd and seed.                   *)
(***************************************************************************)
\* a text attention that attends to the text itself
co_text_attention_self(b, co_head, co_key, co_value, d_model, cfg, name) ==
  LET b1 == layers_transpose(b, "attn_vl_bias_t", "attn_vl_bias", <<0, 1, 3, 2>>)
  IN call_multi_head_attention(b1, "attn_output", "enc_input_pre",
       "enc_input_pre", "enc_input_pre", "attn_vl_bias_t",
       co_key, co_value, d_model, co_head, cfg.attention_dropout, cfg.seed,
       name \o "_multi_head_att")

\* attn_output = multi_head_attention(enc_input_pre, enc_input_vl_pre,
\*   enc_input_vl_pre, layers.transpose(attn_vl_bias, perm=[0, 1, 3, 2]), ...)
co_text_attention(b, co_head, co_key, co_value, d_model, cfg, name) ==
  LET b1 == layers_transpose(b, "attn_vl_bias_t", "attn_vl_bias", <<0, 1, 3, 2>>)
  IN call_multi_head_attention(b1, "attn_output", "enc_input_pre",
       "enc_input_vl_pre", "enc_input_vl_pre", "attn_vl_bias_t",
       co_key, co_value, d_model, co_head, cfg.attention_dropout, cfg.seed,
       name \o "_multi_head_att")

\* attn_vl_output = multi_head_attention(enc_input_vl_pre, enc_input_pre,
\*   enc_input_pre, attn_vl_bias, ...)
co_visual_attention(b, co_head, co_key, co_value, v_model, cfg, name) ==
  call_multi_head_attention(b, "attn_vl_output", "enc_input_vl_pre",
       "enc_input_pre", "enc_input_pre", "attn_vl_bias",
       co_key, co_value, v_model, co_head, cfg.attention_dropout, cfg.seed,
       name \o "_vl_multi_head_att")

co_layer_body(b, co_head, co_key, co_value, d_model, d_inner_hid, v_model, v_inner_hid, cfg, name) ==
  LET b1 == call_pre_process_layer(b, "enc_input_pre", "enc_input",
              cfg.preprocess_cmd, cfg.prepostprocess_dropout, cfg.seed,
              name \o "_pre_att")
      b2 == call_pre_process_layer(b1, "enc_input_vl_pre", "enc_vl_input",
              cfg.preprocess_cmd, cfg.prepostprocess_dropout, cfg.seed,
              name \o "_vl_pre_att")
      b4 == co_text_attention(b2, co_head, co_key, co_value, d_model, cfg, name)
      b5 == co_visual_attention(b4, co_head, co_key, co_value, v_model, cfg, name)
      b6 == call_post_process_layer(b5, "attn_output", "enc_input", "attn_output",
              cfg.postprocess_cmd, cfg.prepostprocess_dropout, cfg.seed,
              name \o "_post_att")
      b7 == call_post_process_layer(b6, "attn_vl_output", "enc_vl_input",
              "attn_vl_output", cfg.postprocess_cmd, cfg.prepostprocess_dropout,
              cfg.seed, name \o "_vl_post_att")
      b8 == call_pre_process_layer(b7, "pre_ffn", "attn_output",
              cfg.preprocess_cmd, cfg.prepostprocess_dropout, cfg.seed,
              name \o "_pre_ffn")
      b9 == call_positionwise_feed_forward(b8, "ffd_output", "pre_ffn", d_inner_hid,
              d_model, cfg.relu_dropout, cfg.hidden_act, cfg.seed, name \o "_ffn")
      b10 == call_pre_process_layer(b9, "pre_vl_ffn", "attn_vl_output",
              cfg.preprocess_cmd, cfg.prepostprocess_dropout, cfg.seed,
              name \o "_pre_vl_ffn")
      b11 == call_positionwise_feed_forward(b10, "ffd_vl_output", "pre_vl_ffn",
              v_inner_hid, v_model, cfg.relu_dropout, cfg.hidden_act, cfg.seed,
              name \o "_vl_ffn")
      b12 == call_post_process_layer(b11, "enc_output", "attn_output", "ffd_output",
              cfg.postprocess_cmd, cfg.prepostprocess_dropout, cfg.seed,
              name \o "_post_ffn")
      b13 == call_post_process_layer(b12, "enc_vl_output", "attn_vl_output",
              "ffd_vl_output", cfg.postprocess_cmd, cfg.prepostprocess_dropout,
              cfg.seed, name \o "_vl_post_ffn")
  IN b13

\* what encoder_co_layer returns: enc_output, enc_vl_output
co_layer_return(b) ==
  [g |-> b.g, raised |-> b.raised,
   out |-> IF b.raised = "" THEN b.l["enc_output"] ELSE None,
   vl_out |-> IF b.raised = "" THEN b.l["enc_vl_output"] ELSE None]

encoder_co_layer(g, enc_input, enc_vl_input, attn_vl_bias, co_head, co_key, co_value, d_model, d_inner_hid, v_model, v_inner_hid, cfg, name) ==
  co_layer_return(co_layer_body(
    Frame(g, "enc_input" :> enc_input @@ "enc_vl_input" :> enc_vl_input
             @@ "attn_vl_bias" :> attn_vl_bias),
    co_head, co_key, co_value, d_model, d_inner_hid, v_model, v_inner_hid, cfg, name))

\* an encoder layer whose first residual is the pre-processed input
layer_body_residual_of_pre(b, n_head, d_key, d_value, d_model, d_inner_hid, cfg, name) ==
  LET b1 == call_pre_process_layer(b, "pre_att", "enc_input", cfg.preprocess_cmd,
              cfg.prepostprocess_dropout, cfg.seed, name \o "_pre_att")
      b2 == call_multi_head_attention(b1, "attn_output", "pre_att", "None", "None",
              "attn_bias", d_key, d_value, d_model, n_head, cfg.attention_dropout,
              cfg.seed, name \o "_multi_head_att")
      b3 == call_post_process_layer(b2, "attn_output", "pre_att", "attn_output",
              cfg.postprocess_cmd, cfg.prepostprocess_dropout, cfg.seed,
              name \o "_post_att")
      b4 == call_pre_process_layer(b3, "pre_ffn", "attn_output", cfg.preprocess_cmd,
              cfg.prepostprocess_dropout, cfg.seed, name \o "_pre_ffn")
      b5 == call_positionwise_feed_forward(b4, "ffd_output", "pre_ffn", d_inner_hid,
              d_model, cfg.relu_dropout, cfg.hidden_act, cfg.seed, name \o "_ffn")
      b6 == call_post_process_layer(b5, "post_ffd", "attn_output", "ffd_output",
              cfg.postprocess_cmd, cfg.prepostprocess_dropout, cfg.seed,
              name \o "_post_ffn")
  IN b6

layer_body(b, n_head, d_key, d_value, d_model, d_inner_hid, cfg, name) ==
  LET b1 == call_pre_process_layer(b, "pre_att", "enc_input", cfg.preprocess_cmd,
              cfg.prepostprocess_dropout, cfg.seed, name \o "_pre_att")
      b2 == call_multi_head_attention(b1, "attn_output", "pre_att", "None", "None",
              "attn_bias", d_key, d_value, d_model, n_head, cfg.attention_dropout,
              cfg.seed, name \o "_multi_head_att")
      b3 == call_post_process_layer(b2, "attn_output", "enc_input", "attn_output",
              cfg.postprocess_cmd, cfg.prepostprocess_dropout, cfg.seed,
              name \o "_post_att")
      b4 == call_pre_process_layer(b3, "pre_ffn", "attn_output", cfg.preprocess_cmd,
              cfg.prepostprocess_dropout, cfg.seed, name \o "_pre_ffn")
      b5 == call_positionwise_feed_forward(b4, "ffd_output", "pre_ffn", d_inner_hid,
              d_model, cfg.relu_dropout, cfg.hidden_act, cfg.seed, name \o "_ffn")
      b6 == call_post_process_layer(b5, "post_ffd", "attn_output", "ffd_output",
              cfg.postprocess_cmd, cfg.prepostprocess_dropout, cfg.seed,
              name \o "_post_ffn")
  IN b6

\* what encoder_layer returns: post_ffd (and attn_output, as under debug)
layer_return(b) ==
  [g |-> b.g, raised |-> b.raised,
   out |-> IF b.raised = "" THEN b.l["post_ffd"] ELSE None,
   attn_output |-> IF b.raised = "" THEN b.l["attn_output"] ELSE None]

encoder_layer(g, enc_input, attn_bias, n_head, d_key, d_value, d_model, d_inner_hid, cfg, name) ==
  layer_return(layer_body(
    Frame(g, "enc_input" :> enc_input @@ "attn_bias" :> attn_bias),
    n_head, d_key, d_value, d_model, d_inner_hid, cfg, name))

(***************************************************************************)
(* Sizes and inputs of the test harnesses                                  *)
(***************************************************************************)
hidden_size == 1024
seq_len == 80
img_seq_len == 40
n_head_test == 16
d_head == 64
d_inner == 4096

\* a dropout rate is 0 or not; 1 stands for any non-zero rate
Rates == {0, 1}

\* the feeds of test_encoder: dA, dB, aBias, bBias, abBias
dA == 1
dB == 2
aBias == 3
bBias == 4
abBias == 5
TestFeeds ==
  LET b1 == layers_data(Frame(EmptyProgram, <<>>), "dA", "A",
                        <<-1, seq_len, hidden_size>>)
      b2 == layers_data(b1, "dB", "B", <<-1, img_seq_len, hidden_size>>)
      b3 == layers_data(b2, "aBias", "aBias", <<-1, n_head_test, seq_len, seq_len>>)
      b4 == layers_data(b3, "bBias", "bBias",
                        <<-1, n_head_test, img_seq_len, img_seq_len>>)
      b5 == layers_data(b4, "abBias", "abBias",
                        <<-1, n_head_test, img_seq_len, seq_len>>)
  IN b5
TestData == TestFeeds.g

\* further arguments a caller of multi_head_attention can hand in: a 2-D
\* tensor, and the two entries of an empty decoding cache
dM == 6
dCacheK == 7
dCacheV == 8
AttnFeeds ==
  LET b1 == layers_data(TestFeeds, "dM", "M", <<-1, hidden_size>>)
      b2 == layers_data(b1, "dCacheK", "cache_k", <<-1, 0, hidden_size>>)
      b3 == layers_data(b2, "dCacheV", "cache_v", <<-1, 0, hidden_size>>)
  IN b3
AttnData == AttnFeeds.g

(***************************************************************************)
(* State                                                                   *)
(***************************************************************************)
VARIABLES
  g,              \* the program being built
  pc,             \* where the caller is
  call,           \* the arguments of the call under way
  ret,            \* what the last call returned or raised
  cache,          \* the entries of the cache dict
  ncalls,         \* calls made so far
  pos,            \* pre_post_process_layer: characters of process_cmd consumed
  out,            \* pre_post_process_layer: the local out
  v_start, t_start, block, v_end, t_end, idx, zi,
  enc_input, enc_vl_input, enc_output, enc_vl_output,
  built,          \* encoder: the layers built so far, in order
  fs,             \* the paths that exist in the file system
  scope,          \* the value each variable of main_program has in the scope
  stdout,         \* the lines printed
  selected        \* load_vars: the variables the predicate let through

fnVars == <<pc, call, ret, cache, ncalls, pos, out>>
encVars == <<v_start, t_start, block, v_end, t_end, idx, zi,
             enc_input, enc_vl_input, enc_output, enc_vl_output, built>>
ioVars == <<fs, scope, stdout, selected>>
vars == <<g, fnVars, encVars, ioVars>>

\* a local that is not bound yet
Unbound == -1

\* the encoder's locals before encoder is entered
EncIdle ==
  /\ v_start = Unbound /\ t_start = Unbound /\ block = Unbound
  /\ v_end = Unbound /\ t_end = Unbound /\ idx = Unbound /\ zi = 0
  /\ enc_input = None /\ enc_vl_input = None
  /\ enc_output = Unbound /\ enc_vl_output = Unbound
  /\ built = <<>>

\* no file is looked at and nothing is loaded outside init_pretraining_params
IoIdle == fs = {} /\ scope = <<>> /\ stdout = <<>> /\ selected = <<>>

NoRet == [out |-> None, raised |-> ""]

(***************************************************************************)
(* multi_head_attention called MaxCalls times with the same arguments and  *)
(* the same cache dict (one call per decoding time step)                   *)
(***************************************************************************)
MaxCalls == 2

Tensors == {dA, dB, dM, abBias}

InitMHA ==
  /\ g = AttnData
  /\ pc = "ready"
  /\ call \in [queries : Tensors, keys : Tensors \cup {None},
               values : Tensors \cup {None}, attn_bias : {None, abBias},
               dropout_rate : Rates, use_cache : BOOLEAN]
  /\ ret = NoRet
  /\ cache = [k |-> dCacheK, v |-> dCacheV]
  /\ ncalls = 0
  /\ pos = 0 /\ out = None
  /\ EncIdle
  /\ IoIdle

CallMultiHeadAttention ==
  /\ pc \in {"ready", "returned"}
  /\ ncalls < MaxCalls
  /\ \E r \in {multi_head_attention(g, call.queries, call.keys, call.values,
                call.attn_bias, d_head, d_head, hidden_size, n_head_test,
                call.dropout_rate,
                IF call.use_cache THEN [some |-> TRUE, k |-> cache.k, v |-> cache.v]
                                  ELSE NoCache,
                0, "mha")} :
        /\ g' = r.g
        /\ ret' = [out |-> r.out, raised |-> r.raised]
        /\ cache' = IF r.cache.some THEN [k |-> r.cache.k, v |-> r.cache.v]
                                      ELSE cache
        /\ pc' = IF r.raised = "" THEN "returned" ELSE "raised"
  /\ ncalls' = ncalls + 1
  /\ UNCHANGED <<ioVars, call, pos, out, encVars>>

NextMHA == CallMultiHeadAttention

SpecMHA == InitMHA /\ [][NextMHA]_vars

(***************************************************************************)
(* Reading a program                                                       *)
(***************************************************************************)
OpsOfType(gg, type) == {i \in DOMAIN gg.ops : gg.ops[i].type = type}

OpsNamed(gg, name) == {i \in DOMAIN gg.ops : gg.ops[i].name = name}

\* the variables that exist in gg keep their shape in hh, and the operators
\* of gg are the first operators of hh
Extends(gg, hh) ==
  /\ Len(gg.ops) <= Len(hh.ops)
  /\ Len(gg.shapes) <= Len(hh.shapes)
  /\ \A i \in DOMAIN gg.ops : hh.ops[i] = gg.ops[i]
  /\ \A x \in DOMAIN gg.shapes : hh.shapes[x] = gg.shapes[x]

\* the keys and values of the call after the None defaults are resolved
KeysOf(c) == IF c.keys = None THEN c.queries ELSE c.keys
ValuesOf(c) == IF c.values = None THEN KeysOf(c) ELSE c.values

A3D(x) == Rank(AttnData, x) = 3
CallIs3D == A3D(call.queries) /\ A3D(KeysOf(call)) /\ A3D(ValuesOf(call))

\* this step is one call of multi_head_attention
MhaStep == ncalls' = ncalls + 1

\* C3 as stated: a call of multi_head_attention leaves every argument,
\* the cache dict and its "k" and "v" entries included, as it was.
C3_Original ==
  [][MhaStep => cache' = cache /\ Extends(g, g')]_vars

\* C3 amended: a call leaves the tensors it is given as they were; it leaves
\* the cache dict as it was when it raises or is given no cache, and
\* otherwise rebinds cache["k"] and cache["v"] to the concatenation along
\* axis 1 of the old entry reshaped to [0, 0, d_model] and the new
\* projected keys / values.
C3_CacheRebound ==
  [][MhaStep =>
       /\ Extends(g, g')
       /\ (~call.use_cache \/ ret'.raised # "") => cache' = cache
       /\ (call.use_cache /\ ret'.raised = "") =>
            LET h == g'
                kfc == CHOOSE i \in DOMAIN h.ops :
                         i > Len(g.ops) /\ h.ops[i].name = "mha_key_fc.w_0"
                vfc == CHOOSE i \in DOMAIN h.ops :
                         i > Len(g.ops) /\ h.ops[i].name = "mha_value_fc.w_0"
                IsConcatOf(x, old, new) ==
                  \E c, r \in DOMAIN h.ops :
                    /\ r > Len(g.ops) /\ c > r
                    /\ h.ops[r].type = "reshape2" /\ h.ops[r].ins = <<old>>
                    /\ h.ops[r].attr = <<0, 0, hidden_size>>
                    /\ h.ops[r].out # old
                    /\ h.ops[c].type = "concat" /\ h.ops[c].attr = <<1>>
                    /\ h.ops[c].ins = <<h.ops[r].out, new>>
                    /\ h.ops[c].out = x
            IN /\ cache'.k # cache.k /\ cache'.v # cache.v
               /\ IsConcatOf(cache'.k, cache.k, h.ops[kfc].out)
               /\ IsConcatOf(cache'.v, cache.v, h.ops[vfc].out)
               /\ h.shapes[cache'.k][2] = g.shapes[cache.k][2]
                                          + g.shapes[KeysOf(call)][2]
  ]_vars

\* a call with a cache has returned twice: the entries hold both time steps
C3_Witness ==
  /\ ncalls = 2 /\ call.use_cache /\ ret.raised = ""
  /\ cache.k \notin {dCacheK, dCacheV} /\ g.shapes[cache.k][2] = 2 * seq_len

\* C6: attn_bias, when supplied, is added to the logits before the softmax:
\* every attention is scale(q by d_key^-0.5), matmul with the transposed
\* keys, add attn_bias (exactly when supplied), softmax, dropout (exactly
\* when dropout_rate is non-zero), matmul with the values, each step
\* reading the result of the one before.
SdpaAt(gg, i, bias, rate) ==
  LET o(j) == gg.ops[j]
      nb == IF bias # None THEN 1 ELSE 0
      nd == IF rate # 0 THEN 1 ELSE 0
      sm == i + 2 + nb
      last == sm + nd + 1
      Heads(x, names) ==
        \E t, f \in DOMAIN gg.ops :
          /\ f < t /\ t < i
          /\ o(t).type = "transpose2" /\ o(t).attr = <<0, 2, 1, 3>> /\ o(t).out = x
          /\ o(f).name \in names /\ o(t).ins = <<o(f).out>>
  IN /\ last <= Len(gg.ops)
     /\ o(i).attr = <<d_head>> /\ Heads(o(i).ins[1], {"mha_query_fc.w_0"})
     /\ o(i + 1).type = "matmul" /\ o(i + 1).attr = <<1>>
     /\ o(i + 1).ins[1] = o(i).out
     /\ \/ Heads(o(i + 1).ins[2], {"mha_key_fc.w_0"})
        \/ \E c \in DOMAIN gg.ops :
             /\ o(c).type = "concat"
             /\ \E t \in DOMAIN gg.ops :
                  /\ o(t).type = "transpose2" /\ o(t).ins = <<o(c).out>>
                  /\ o(t).out = o(i + 1).ins[2]
     /\ nb = 1 => /\ o(i + 2).type = "elementwise_add"
                  /\ o(i + 2).ins = <<o(i + 1).out, bias>>
     /\ o(sm).type = "softmax" /\ o(sm).ins = <<o(sm - 1).out>>
     /\ nd = 1 => o(sm + 1).type = "dropout" /\ o(sm + 1).ins = <<o(sm).out>>
     /\ o(last).type = "matmul" /\ o(last).attr = <<0>>
     /\ o(last).ins[1] = o(last - 1).out

Returned == IF ret.raised = "" THEN ncalls ELSE ncalls - 1

C6_BiasBeforeSoftmax ==
  /\ \A i \in OpsOfType(g, "scale") : SdpaAt(g, i, call.attn_bias, call.dropout_rate)
  /\ Cardinality(OpsOfType(g, "scale")) = Returned
  /\ Cardinality(OpsOfType(g, "softmax")) = Returned
  /\ Cardinality(OpsOfType(g, "elementwise_add"))
       = IF call.attn_bias # None THEN Returned ELSE 0
  /\ Cardinality(OpsOfType(g, "dropout"))
       = IF call.dropout_rate # 0 THEN Returned ELSE 0

\* an attention with a bias and a dropout has been built
C6_Witness ==
  /\ ret.raised = "" /\ ncalls >= 1
  /\ call.attn_bias # None /\ call.dropout_rate # 0
  /\ OpsOfType(g, "softmax") # {}

\* C8: multi_head_attention raises ValueError exactly when one of queries,
\* keys, values (None defaults resolved) is not 3-D, and then it has created
\* no projection and has not touched the cache.
C8_RaisesBeforeAnyEffect ==
  [][MhaStep =>
       /\ (ret'.raised = "ValueError") <=> ~CallIs3D
       /\ ~CallIs3D => g' = g /\ cache' = cache /\ ret'.out = None
       /\ CallIs3D => OpsNamed(g', "mha_query_fc.w_0") # {}
  ]_vars

\* a call whose values alone are not 3-D has raised, with a cache handed in
C8_Witness ==
  /\ ret.raised = "ValueError" /\ ncalls = 1
  /\ A3D(call.queries) /\ A3D(KeysOf(call)) /\ ~A3D(ValuesOf(call))
  /\ call.use_cache /\ g = AttnData /\ cache = [k |-> dCacheK, v |-> dCacheV]

(***************************************************************************)
(* encoder_layer, encoder_co_layer and positionwise_feed_forward called    *)
(* once, as the test harnesses call them, with the scalar arguments drawn  *)
(* from small sets                                                         *)
(***************************************************************************)
MaxPreCmd == 1
MaxPostCmd == 2

\* process_cmd strings of at most n characters over the three commands
Cmds(n) == UNION {[1..k -> {"a", "n", "d"}] : k \in 0..n}

Acts == {"relu", "gelu"}

Configs ==
  [preprocess_cmd : Cmds(MaxPreCmd),
   postprocess_cmd : Cmds(MaxPostCmd) \cup {<<"d", "a", "n">>},
   prepostprocess_dropout : Rates, attention_dropout : Rates, relu_dropout : Rates,
   hidden_act : Acts, seed : {0}]

NoLayerRet == [out |-> None, vl_out |-> None, attn_output |-> None, raised |-> ""]

InitLayers ==
  /\ g = TestData
  /\ pc = "ready"
  /\ call \in Configs
  /\ ret = NoLayerRet
  /\ cache = [k |-> None, v |-> None]
  /\ ncalls = 0
  /\ pos = 0 /\ out = None
  /\ EncIdle
  /\ IoIdle

\* test_encoder_layer
CallEncoderLayer ==
  /\ pc = "ready"
  /\ \E r \in {encoder_layer(g, dA, aBias, n_head_test, d_head, d_head, hidden_size,
                             d_inner, call, "encoder_layer_4")} :
        /\ g' = r.g
        /\ ret' = [out |-> r.out, vl_out |-> None, attn_output |-> r.attn_output,
                   raised |-> r.raised]
  /\ pc' = "encoder_layer"
  /\ UNCHANGED <<ioVars, call, cache, ncalls, pos, out, encVars>>

\* test_encoder_co_layer
CallEncoderCoLayer ==
  /\ pc = "ready"
  /\ \E r \in {encoder_co_layer(g, dA, dB, abBias, n_head_test, d_head, d_head,
                                hidden_size, d_inner, hidden_size, d_inner, call,
                                "encoder_colayer_2")} :
        /\ g' = r.g
        /\ ret' = [out |-> r.out, vl_out |-> r.vl_out, attn_output |-> None,
                   raised |-> r.raised]
  /\ pc' = "encoder_co_layer"
  /\ UNCHANGED <<ioVars, call, cache, ncalls, pos, out, encVars>>

\* test_positionwise_feed_forward
CallFeedForward ==
  /\ pc = "ready"
  /\ \E r \in {positionwise_feed_forward(g, dA, d_inner, hidden_size,
                                         call.relu_dropout, call.hidden_act,
                                         call.seed, "encoder_vlayer_5_ffn")} :
        /\ g' = r.g
        /\ ret' = [out |-> r.out, vl_out |-> None, attn_output |-> None,
                   raised |-> r.raised]
  /\ pc' = "positionwise_feed_forward"
  /\ UNCHANGED <<ioVars, call, cache, ncalls, pos, out, encVars>>

NextLayers == CallEncoderLayer \/ CallEncoderCoLayer \/ CallFeedForward

SpecLayers == InitLayers /\ [][NextLayers]_vars

(***************************************************************************)
(* Reading the dataflow of a program                                       *)
(***************************************************************************)
\* the operator that first writes variable x
Producer(gg, x) == CHOOSE i \in DOMAIN gg.ops :
                     /\ gg.ops[i].out = x
                     /\ \A j \in DOMAIN gg.ops : gg.ops[j].out = x => i <= j

\* the one operator with this parameter name
Named(gg, name) == CHOOSE i \in DOMAIN gg.ops : gg.ops[i].name = name

\* the variable k operators back from x along the first operand, through
\* operators of the given types only; None when another operator is met
RECURSIVE Back(_, _, _, _)
Back(gg, x, k, types) ==
  IF k = 0 THEN x
  ELSE IF gg.ops[Producer(gg, x)].type \notin types THEN None
  ELSE Back(gg, gg.ops[Producer(gg, x)].ins[1], k - 1, types)

\* the second operands of the elementwise_add operators among the k
\* operators behind x
RECURSIVE Residuals(_, _, _)
Residuals(gg, x, k) ==
  IF k = 0 THEN {}
  ELSE (IF gg.ops[Producer(gg, x)].type = "elementwise_add"
        THEN {gg.ops[Producer(gg, x)].ins[2]} ELSE {})
       \cup Residuals(gg, gg.ops[Producer(gg, x)].ins[1], k - 1)

\* how many operators a process_cmd appends
RECURSIVE CmdOps(_, _, _)
CmdOps(cmd, has_prev, rate) ==
  IF cmd = <<>> THEN 0
  ELSE (IF \/ Head(cmd) = "n"
           \/ Head(cmd) = "a" /\ has_prev
           \/ Head(cmd) = "d" /\ rate # 0
        THEN 1 ELSE 0) + CmdOps(Tail(cmd), has_prev, rate)

PreOps == CmdOps(call.preprocess_cmd, FALSE, call.prepostprocess_dropout)
PostOps == CmdOps(call.postprocess_cmd, TRUE, call.prepostprocess_dropout)
PreTypes == {"layer_norm", "dropout"}
PostTypes == {"layer_norm", "dropout", "elementwise_add"}

\* for every operator, the operators it depends on
RECURSIVE DepTable(_, _)
DepTable(gg, acc) ==
  IF Len(acc) = Len(gg.ops) THEN acc
  ELSE DepTable(gg, Append(acc,
         UNION {{j} \cup acc[j] :
                j \in {j \in 1..Len(acc) :
                         \E n \in DOMAIN gg.ops[Len(acc) + 1].ins :
                           gg.ops[Len(acc) + 1].ins[n] = gg.ops[j].out}}))

\* the projection whose result, split into heads and scaled, is the first
\* operand of the product this elementwise_add adds a bias to
QueryOfBiasAdd(gg, i) ==
  LET product == Producer(gg, gg.ops[i].ins[1])
      scaled == Producer(gg, gg.ops[product].ins[1])
      heads == Producer(gg, gg.ops[scaled].ins[1])
  IN gg.ops[Producer(gg, gg.ops[heads].ins[1])].name

BiasAdds(gg) ==
  {i \in OpsOfType(gg, "elementwise_add") :
     gg.ops[Producer(gg, gg.ops[i].ins[1])].type = "matmul"}

\* C4: in encoder_co_layer the text attention has the pre-processed text as
\* queries and the pre-processed visual input as keys and values, with
\* attn_vl_bias transposed on its last two axes; the visual attention has
\* the pre-processed visual input as queries and the pre-processed text as
\* keys and values, with attn_vl_bias as given; neither attention depends
\* on the other's output.
C4_CoAttentionIsCrossModal ==
  pc = "encoder_co_layer" =>
    LET N == "encoder_colayer_2"
        In(name) == g.ops[Named(g, name)].ins
        pt == In(N \o "_multi_head_att_query_fc.w_0")[1]
        pv == In(N \o "_vl_multi_head_att_query_fc.w_0")[1]
        deps == DepTable(g, <<>>)
        to == Named(g, N \o "_multi_head_att_output_fc.w_0")
        vo == Named(g, N \o "_vl_multi_head_att_output_fc.w_0")
    IN /\ Back(g, pt, PreOps, PreTypes) = dA
       /\ Back(g, pv, PreOps, PreTypes) = dB
       /\ In(N \o "_multi_head_att_key_fc.w_0") = <<pv>>
       /\ In(N \o "_multi_head_att_value_fc.w_0") = <<pv>>
       /\ In(N \o "_vl_multi_head_att_key_fc.w_0") = <<pt>>
       /\ In(N \o "_vl_multi_head_att_value_fc.w_0") = <<pt>>
       /\ Cardinality(BiasAdds(g)) = 2
       /\ \A i \in BiasAdds(g) :
            \/ /\ QueryOfBiasAdd(g, i) = N \o "_multi_head_att_query_fc.w_0"
               /\ g.ops[Producer(g, g.ops[i].ins[2])].type = "transpose2"
               /\ g.ops[Producer(g, g.ops[i].ins[2])].attr = <<0, 1, 3, 2>>
               /\ g.ops[Producer(g, g.ops[i].ins[2])].ins = <<abBias>>
            \/ /\ QueryOfBiasAdd(g, i) = N \o "_vl_multi_head_att_query_fc.w_0"
               /\ g.ops[i].ins[2] = abBias
       /\ \E i, j \in BiasAdds(g) : QueryOfBiasAdd(g, i) # QueryOfBiasAdd(g, j)
       /\ vo \notin deps[to] /\ to \notin deps[vo]
       /\ Named(g, N \o "_multi_head_att_query_fc.w_0") \in deps[to]
       /\ Named(g, N \o "_vl_multi_head_att_query_fc.w_0") \in deps[vo]

\* a co-layer with a layer normalization before the attentions was built
C4_Witness ==
  /\ pc = "encoder_co_layer" /\ ret.raised = ""
  /\ call.preprocess_cmd = <<"n">> /\ call.postprocess_cmd = <<"d", "a">>
  /\ Cardinality(BiasAdds(g)) = 2

\* C9: in encoder_layer the attention's queries, keys and values are all the
\* pre-processed enc_input; the residual added after the attention is
\* enc_input itself; the feed-forward input is the pre-processed
\* attention-block output; the residual added after the feed-forward is the
\* attention-block output.
C9_EncoderLayerWiring ==
  pc = "encoder_layer" =>
    LET N == "encoder_layer_4"
        In(name) == g.ops[Named(g, name)].ins
        p == In(N \o "_multi_head_att_query_fc.w_0")[1]
        has_a == \E n \in DOMAIN call.postprocess_cmd : call.postprocess_cmd[n] = "a"
    IN /\ Back(g, p, PreOps, PreTypes) = dA
       /\ In(N \o "_multi_head_att_key_fc.w_0") = <<p>>
       /\ In(N \o "_multi_head_att_value_fc.w_0") = <<p>>
       /\ Back(g, ret.attn_output, PostOps, PostTypes)
            = g.ops[Named(g, N \o "_multi_head_att_output_fc.w_0")].out
       /\ Residuals(g, ret.attn_output, PostOps) = IF has_a THEN {dA} ELSE {}
       /\ Back(g, In(N \o "_ffn_fc_0.w_0")[1], PreOps, PreTypes) = ret.attn_output
       /\ Back(g, ret.out, PostOps, PostTypes)
            = g.ops[Named(g, N \o "_ffn_fc_1.w_0")].out
       /\ Residuals(g, ret.out, PostOps) = IF has_a THEN {ret.attn_output} ELSE {}
       /\ In(N \o "_ffn_fc_1.w_0")[1]
            \in {g.ops[Named(g, N \o "_ffn_fc_0.w_0")].out} \cup
                {g.ops[i].out : i \in OpsOfType(g, "dropout")}

\* an encoder layer with pre-normalization and both residuals was built
C9_Witness ==
  /\ pc = "encoder_layer" /\ ret.raised = ""
  /\ call.preprocess_cmd = <<"n">> /\ call.postprocess_cmd = <<"d", "a">>
  /\ call.prepostprocess_dropout # 0
  /\ Cardinality(OpsOfType(g, "elementwise_add")) = 3

\* C10 as stated (and as the docstring of positionwise_feed_forward says):
\* the activation between the two linear transformations is ReLU.
C10_ActivationIsRelu ==
  pc = "positionwise_feed_forward" =>
    /\ g.ops[Named(g, "encoder_vlayer_5_ffn_fc_0.w_0")].act = "relu"
    /\ Named(g, "encoder_vlayer_5_ffn_fc_0.w_0")
         < Named(g, "encoder_vlayer_5_ffn_fc_1.w_0")

(***************************************************************************)
(* pre_post_process_layer, one character of process_cmd at a time: called  *)
(* with cmd1, and then in a fresh program with a reordering cmd2 of cmd1   *)
(***************************************************************************)
MaxCmd == 3

\* the feeds of test_pre_post_process_layer: dA (prev_out), attn_output (out)
PplFeeds ==
  LET b1 == layers_data(Frame(EmptyProgram, <<>>), "dA", "A",
                        <<-1, seq_len, hidden_size>>)
      b2 == layers_data(b1, "attn_output", "B", <<-1, seq_len, hidden_size>>)
  IN b2
PplData == PplFeeds.g
ppl_prev == PplFeeds.l["dA"]
ppl_out == PplFeeds.l["attn_output"]

\* process_cmd strings of at most n characters; "x" is any character that is
\* no command
CmdStrings(n) == UNION {[1..k -> {"a", "n", "d", "x"}] : k \in 0..n}

IsReordering(c1, c2) ==
  /\ Len(c1) = Len(c2)
  /\ \A ch \in {"a", "n", "d", "x"} :
       Cardinality({i \in DOMAIN c1 : c1[i] = ch})
         = Cardinality({i \in DOMAIN c2 : c2[i] = ch})

InitPPL ==
  /\ g = PplData
  /\ pc = "first"
  /\ call \in {c \in [prev_out : {None, ppl_prev}, dropout_rate : Rates,
                      cmd1 : CmdStrings(MaxCmd), cmd2 : CmdStrings(MaxCmd)] :
                 IsReordering(c.cmd1, c.cmd2)}
  /\ ret = [g |-> EmptyProgram, out |-> None]
  /\ cache = [k |-> None, v |-> None]
  /\ ncalls = 0
  /\ pos = 0 /\ out = ppl_out
  /\ EncIdle
  /\ IoIdle

\* the process_cmd of the call under way
CurrentCmd == IF pc = "first" THEN call.cmd1 ELSE call.cmd2

\* one iteration of "for cmd in process_cmd"
PplStep ==
  /\ pc \in {"first", "second"}
  /\ pos < Len(CurrentCmd)
  /\ \E b \in {process_cmd_step(
                 Frame(g, "prev_out" :> call.prev_out @@ "out" :> out),
                 CurrentCmd[pos + 1], call.dropout_rate, 0,
                 "encoder_layer_9_post_att")} :
        /\ g' = b.g
        /\ out' = b.l["out"]
  /\ pos' = pos + 1
  /\ UNCHANGED <<ioVars, pc, call, ret, cache, ncalls, encVars>>

\* the first call returns out; the second call starts in a fresh program
PplReturnFirst ==
  /\ pc = "first"
  /\ pos = Len(call.cmd1)
  /\ ret' = [g |-> g, out |-> out]
  /\ g' = PplData
  /\ out' = ppl_out
  /\ pos' = 0
  /\ pc' = "second"
  /\ ncalls' = ncalls + 1
  /\ UNCHANGED <<ioVars, call, cache, encVars>>

\* the second call returns out
PplReturnSecond ==
  /\ pc = "second"
  /\ pos = Len(call.cmd2)
  /\ pc' = "done"
  /\ ncalls' = ncalls + 1
  /\ UNCHANGED <<ioVars, g, call, ret, cache, pos, out, encVars>>

NextPPL == PplStep \/ PplReturnFirst \/ PplReturnSecond

SpecPPL == InitPPL /\ [][NextPPL]_vars

\* the operations a process_cmd stands for, as the claim reads it: one per
\* command character
RECURSIVE CmdTypes(_)
CmdTypes(cmd) ==
  IF cmd = <<>> THEN <<>>
  ELSE (IF Head(cmd) = "a" THEN <<"elementwise_add">>
        ELSE IF Head(cmd) = "n" THEN <<"layer_norm">>
        ELSE IF Head(cmd) = "d" THEN <<"dropout">>
        ELSE <<>>) \o CmdTypes(Tail(cmd))

\* the operations that take effect: "a" only with a prev_out, "d" only with
\* a non-zero dropout_rate
RECURSIVE Effective(_, _, _)
Effective(cmd, prev, rate) ==
  IF cmd = <<>> THEN <<>>
  ELSE (IF Head(cmd) = "a" /\ prev # None THEN <<"elementwise_add">>
        ELSE IF Head(cmd) = "n" THEN <<"layer_norm">>
        ELSE IF Head(cmd) = "d" /\ rate # 0 THEN <<"dropout">>
        ELSE <<>>) \o Effective(Tail(cmd), prev, rate)

\* the operators appended to the program are the operations ops, chained
\* from ppl_out to x
IsChain(gg, x, ops) ==
  LET n0 == Len(PplData.ops)
  IN /\ Len(gg.ops) = n0 + Len(ops)
     /\ x = IF ops = <<>> THEN ppl_out ELSE gg.ops[Len(gg.ops)].out
     /\ \A i \in DOMAIN ops :
          /\ gg.ops[n0 + i].type = ops[i]
          /\ gg.ops[n0 + i].ins[1] = IF i = 1 THEN ppl_out ELSE gg.ops[n0 + i - 1].out
          /\ ops[i] = "elementwise_add" => gg.ops[n0 + i].ins = <<gg.ops[n0 + i].ins[1], call.prev_out>>
          /\ ops[i] = "layer_norm" => gg.ops[n0 + i].attr = <<2>>

\* C5 as stated: every command character is one operation, applied in order
\* to the result of the one before, so the same characters in another order
\* give another composition.
C5_Original ==
  /\ pc \in {"first", "second"} =>
       IsChain(g, out, CmdTypes(SubSeq(CurrentCmd, 1, pos)))
  /\ (pc = "done" /\ call.cmd1 # call.cmd2
        /\ \A i \in DOMAIN call.cmd1 : call.cmd1[i] # "x")
       => <<ret.g, ret.out>> # <<g, out>>

\* C5 amended: process_cmd is read left to right; "a" adds prev_out when a
\* prev_out is given, "n" applies layer normalization over the last axis,
\* "d" applies dropout when dropout_rate is not zero, and a character does
\* nothing otherwise; the result is the composition of the operations that
\* take effect, in the order of their characters, and two orders of the same
\* characters give the same composition exactly when their sequences of
\* effective operations are the same.
C5_EffectiveComposition ==
  /\ pc \in {"first", "second"} =>
       IsChain(g, out, Effective(SubSeq(CurrentCmd, 1, pos), call.prev_out,
                                 call.dropout_rate))
  /\ pc \in {"second", "done"} =>
       IsChain(ret.g, ret.out, Effective(call.cmd1, call.prev_out, call.dropout_rate))
  /\ pc = "done" =>
       /\ IsChain(g, out, Effective(call.cmd2, call.prev_out, call.dropout_rate))
       /\ (<<ret.g, ret.out>> = <<g, out>>)
            <=> (Effective(call.cmd1, call.prev_out, call.dropout_rate)
                   = Effective(call.cmd2, call.prev_out, call.dropout_rate))

\* "dan" and "adn" have both run with a prev_out and a dropout, and differ
C5_Witness ==
  /\ pc = "done"
  /\ call.cmd1 = <<"d", "a", "n">> /\ call.cmd2 = <<"a", "d", "n">>
  /\ call.prev_out # None /\ call.dropout_rate # 0
  /\ Len(g.ops) = Len(PplData.ops) + 3
  /\ ret.g # g

(***************************************************************************)
(* What reshape2 and transpose2 compute.  A tensor value is its shape and  *)
(* its elements in row-major order; indices are 0-based.                   *)
(***************************************************************************)
RECURSIVE Prod(_)
Prod(shape) == IF shape = <<>> THEN 1 ELSE Head(shape) * Prod(Tail(shape))

\* the offset of the element at index ix
RECURSIVE FlatFrom(_, _, _, _)
FlatFrom(ix, shape, k, acc) ==
  IF k > Len(shape) THEN acc
  ELSE FlatFrom(ix, shape, k + 1, acc * shape[k] + ix[k])
Flatten(ix, shape) == FlatFrom(ix, shape, 1, 0)

\* the index of the element at offset p
Unflatten(p, shape) ==
  [k \in 1..Len(shape) |->
     (p \div Prod(SubSeq(shape, k + 1, Len(shape)))) % shape[k]]

At(t, ix) == t.data[Flatten(ix, t.shape) + 1]

\* reshape keeps the elements in their order
ReshapeTensor(t, attr) == [shape |-> ReshapeTo(t.shape, attr), data |-> t.data]

\* transpose: out[o] = in[i] where i[perm[k]] = o[k]
TransposeTensor(t, perm) ==
  LET os == [k \in 1..Len(perm) |-> t.shape[perm[k] + 1]]
      Src(o) == [m \in 1..Len(perm) |->
                   o[CHOOSE k \in 1..Len(perm) : perm[k] + 1 = m]]
  IN [shape |-> os,
      data |-> [p \in 1..Len(t.data) |-> At(t, Src(Unflatten(p - 1, os)))]]

NoTensor == [shape |-> <<>>, data |-> <<>>]

\* one operator run on the values env of the variables
Exec(op, env) ==
  IF op.type = "reshape2"
  THEN [env EXCEPT ![op.out] = ReshapeTensor(env[op.ins[1]], op.attr)]
  ELSE IF op.type = "transpose2"
  THEN [env EXCEPT ![op.out] = TransposeTensor(env[op.ins[1]], op.attr)]
  ELSE env

\* the operators i.. of gg run in order
RECURSIVE Run(_, _, _)
Run(gg, i, env) ==
  IF i > Len(gg.ops) THEN env ELSE Run(gg, i + 1, Exec(gg.ops[i], env))

\* env with room for the variables of gg
Extend(env, gg) ==
  [v \in 1..Len(gg.shapes) |-> IF v <= Len(env) THEN env[v] ELSE NoTensor]

(***************************************************************************)
(* __split_heads and then __combine_heads on a fed tensor                  *)
(***************************************************************************)
MaxBatch == 2
MaxSeq == 2
MaxHeads == 2
MaxHid == 2
MaxMul == 2
MaxOff == 1

\* the tensors [b, s, n_head * h] fed: element i is i * m + c
HeadInputs ==
  {[n_head |-> n,
    x |-> [shape |-> <<b, s, n * h>>,
           data |-> [i \in 1..(b * s * n * h) |-> i * m + c]]] :
     b \in 1..MaxBatch, s \in 1..MaxSeq, n \in 1..MaxHeads, h \in 1..MaxHid,
     m \in 1..MaxMul, c \in 0..MaxOff}

InitHeads ==
  /\ call \in HeadInputs
  /\ g = layers_data(Frame(EmptyProgram, <<>>), "x", "x", call.x.shape).g
  /\ pc = "fed"
  /\ ret = <<call.x>>
  /\ cache = [k |-> None, v |-> None]
  /\ ncalls = 0
  /\ pos = 0 /\ out = 1
  /\ EncIdle
  /\ IoIdle

\* out = __split_heads(out, n_head)
DoSplitHeads ==
  /\ pc = "fed"
  /\ \E b \in {split_heads(Frame(g, "x" :> out), "ret", "x", call.n_head)} :
        /\ g' = b.g
        /\ out' = b.l["ret"]
        /\ ret' = Run(b.g, Len(g.ops) + 1, Extend(ret, b.g))
  /\ pc' = "split"
  /\ UNCHANGED <<ioVars, call, cache, ncalls, pos, encVars>>

\* out = __combine_heads(out)
DoCombineHeads ==
  /\ pc = "split"
  /\ \E b \in {combine_heads(Frame(g, "x" :> out), "ret", "x")} :
        /\ b.raised = ""
        /\ g' = b.g
        /\ out' = b.l["ret"]
        /\ ret' = Run(b.g, Len(g.ops) + 1, Extend(ret, b.g))
  /\ pc' = "combined"
  /\ UNCHANGED <<ioVars, call, cache, ncalls, pos, encVars>>

\* proj_out = layers.fc(input=out, size=d_model, ...)
DoOutputProjection ==
  /\ pc = "combined"
  /\ \E b \in {layers_fc(Frame(g, "out" :> out), "proj_out", "out",
                          call.x.shape[3], "", "mha_output_fc")} :
        /\ g' = b.g
        /\ out' = b.l["proj_out"]
        /\ ret' = Extend(ret, b.g)
  /\ pc' = "projected"
  /\ UNCHANGED <<ioVars, call, cache, ncalls, pos, encVars>>

NextHeads == DoSplitHeads \/ DoCombineHeads \/ DoOutputProjection

SpecHeads == InitHeads /\ [][NextHeads]_vars

\* C7: __split_heads takes [b, s, n_head*h] to [b, n_head, s, h], head n of
\* position s holding elements n*h .. n*h+h-1 of that position, and
\* __combine_heads of the result has shape [b, s, n_head*h] and equals x
\* element for element; the combined tensor holds the output of head n at
\* elements n*h .. n*h+h-1 of each position, and it is what the output
\* projection reads.
C7_CombineReversesSplit ==
  LET bsz == call.x.shape[1]
      len == call.x.shape[2]
      n == call.n_head
      h == call.x.shape[3] \div call.n_head
  IN /\ pc = "split" =>
          /\ ret[out].shape = <<bsz, n, len, h>>
          /\ g.shapes[out] = <<bsz, n, len, h>>
          /\ \A bi \in 0..(bsz - 1), ni \in 0..(n - 1), si \in 0..(len - 1),
                hi \in 0..(h - 1) :
               At(ret[out], <<bi, ni, si, hi>>) = At(call.x, <<bi, si, ni * h + hi>>)
     /\ pc = "combined" =>
          /\ ret[out].shape = <<bsz, len, n * h>>
          /\ g.shapes[out] = <<bsz, len, n * h>>
          /\ ret[out].data = call.x.data
          /\ ret[out] = call.x
          /\ LET tr == g.ops[Len(g.ops) - 1]
             IN /\ tr.type = "transpose2"
                /\ \A bi \in 0..(bsz - 1), ni \in 0..(n - 1), si \in 0..(len - 1),
                      hi \in 0..(h - 1) :
                     At(ret[out], <<bi, si, ni * h + hi>>)
                       = At(ret[tr.ins[1]], <<bi, ni, si, hi>>)
     /\ pc = "projected" =>
          LET fc == g.ops[Len(g.ops)]
          IN /\ fc.type = "fc" /\ fc.name = "mha_output_fc.w_0"
             /\ Len(fc.ins) = 1
             /\ ret[fc.ins[1]] = call.x
             /\ g.shapes[fc.ins[1]] = <<bsz, len, n * h>>
             /\ g.ops[Len(g.ops) - 1].type = "reshape2"
             /\ g.ops[Len(g.ops) - 1].out = fc.ins[1]

\* two heads of two elements over two positions were split and combined
C7_Witness ==
  /\ pc = "projected"
  /\ call.n_head = 2 /\ call.x.shape = <<2, 2, 4>>
  /\ Cardinality({call.x.data[i] : i \in DOMAIN call.x.data}) = 16
  /\ Cardinality(OpsOfType(g, "transpose2")) = 2

(***************************************************************************)
(* encoder: the zip loop over the two schedules, one step per layer built  *)
(***************************************************************************)
MaxBlocks == 2
MaxTId == 2
MaxVId == 1

Digits == <<"0", "1", "2", "3", "4", "5", "6", "7", "8", "9">>

\* a str that keeps the last digit only
str_last_digit(i) == Digits[(i % 10) + 1]

\* str(i) of an int: its decimal digits
RECURSIVE str(_)
str(i) ==
  IF i < 0 THEN "-" \o str(0 - i)
  ELSE IF i < 10 THEN Digits[i + 1]
  ELSE str(i \div 10) \o Digits[(i % 10) + 1]

\* a range that includes its end
range_inclusive(a, b) == [i \in 1..(IF b >= a THEN b - a + 1 ELSE 0) |-> a + i - 1]

\* range(a, b): a, a+1, .., b-1
range(a, b) == [i \in 1..(IF b > a THEN b - a ELSE 0) |-> a + i - 1]

\* the items zip yields
zip_len(xs, ys) == IF Len(xs) <= Len(ys) THEN Len(xs) ELSE Len(ys)

\* the scalar arguments test_encoder passes
TestConfig ==
  [preprocess_cmd |-> <<>>, postprocess_cmd |-> <<"d", "a", "n">>,
   prepostprocess_dropout |-> 0, attention_dropout |-> 0, relu_dropout |-> 0,
   hidden_act |-> "gelu", seed |-> 0]

\* the default schedules of encoder
DefaultSchedule ==
  [v_biattention_id |-> <<0, 1, 2, 3, 4, 5>>,
   t_biattention_id |-> <<18, 19, 20, 21, 22, 23>>,
   name |-> "encoder"]

\* schedules of equal length, non-decreasing or not
Schedules ==
  UNION {[v_biattention_id : [1..n -> 0..MaxVId],
          t_biattention_id : [1..n -> 0..MaxTId],
          name : {"encoder"}] : n \in 0..MaxBlocks}

InitEnc ==
  /\ g = TestData
  /\ pc = "entry"
  /\ call \in Schedules \cup {DefaultSchedule}
  /\ ret = NoLayerRet
  /\ cache = [k |-> None, v |-> None]
  /\ ncalls = 0
  /\ pos = 0 /\ out = None
  /\ EncIdle
  /\ IoIdle

\* the record of one layer built: its stream inputs and outputs and the
\* operators it appended
LayerBuilt(kind, i, lname, x, vl_x, y, vl_y, gg, hh) ==
  [kind |-> kind, idx |-> i, name |-> lname, input |-> x, vl_input |-> vl_x,
   out |-> y, vl_out |-> vl_y, from |-> Len(gg.ops) + 1, to |-> Len(hh.ops)]

\* v_start = 0; t_start = 0; block = 0
EncEnter ==
  /\ pc = "entry"
  /\ v_start' = 0 /\ t_start' = 0 /\ block' = 0
  /\ enc_input' = dA /\ enc_vl_input' = dB
  /\ pc' = "zip"
  /\ UNCHANGED <<ioVars, g, call, ret, cache, ncalls, pos, out, v_end, t_end, idx, zi,
                 enc_output, enc_vl_output, built>>

\* for v_layer_id, t_layer_id in zip(...): the next pair
ZipNext ==
  /\ pc = "zip"
  /\ zi < zip_len(call.v_biattention_id, call.t_biattention_id)
  /\ zi' = zi + 1
  /\ v_end' = call.v_biattention_id[zi + 1]
  /\ t_end' = call.t_biattention_id[zi + 1]
  /\ pos' = 0
  /\ pc' = "text"
  /\ UNCHANGED <<ioVars, g, call, ret, cache, ncalls, out, v_start, t_start, block, idx,
                 enc_input, enc_vl_input, enc_output, enc_vl_output, built>>

\* the zip is exhausted
ZipEnd ==
  /\ pc = "zip"
  /\ zi >= zip_len(call.v_biattention_id, call.t_biattention_id)
  /\ pc' = "final_text"
  /\ UNCHANGED <<ioVars, g, call, ret, cache, ncalls, pos, out, encVars>>

\* for idx in range(t_start, t_end): enc_output = encoder_layer(enc_input, ...)
TextLayer ==
  /\ pc = "text"
  /\ pos < Len(range(t_start, t_end))
  /\ \E i \in {range(t_start, t_end)[pos + 1]} :
     \E r \in {encoder_layer(g, enc_input, aBias, n_head_test, d_head, d_head,
                             hidden_size, d_inner, TestConfig,
                             call.name \o "_layer_" \o str(i))} :
        /\ idx' = i
        /\ g' = r.g
        /\ enc_output' = r.out
        /\ enc_input' = r.out
        /\ built' = Append(built, LayerBuilt("text", i,
                             call.name \o "_layer_" \o str(i),
                             enc_input, None, r.out, None, g, r.g))
  /\ pos' = pos + 1
  /\ UNCHANGED <<ioVars, pc, call, ret, cache, ncalls, out, v_start, t_start, block,
                 v_end, t_end, zi, enc_vl_input, enc_vl_output>>

\* the text loop of this block is over
TextDone ==
  /\ pc = "text"
  /\ pos >= Len(range(t_start, t_end))
  /\ pos' = 0
  /\ pc' = "visual"
  /\ UNCHANGED <<ioVars, g, call, ret, cache, ncalls, out, encVars>>

\* for idx in range(v_start, v_end): enc_vl_output = encoder_layer(enc_vl_input, ...)
VisualLayer ==
  /\ pc = "visual"
  /\ pos < Len(range(v_start, v_end))
  /\ \E i \in {range(v_start, v_end)[pos + 1]} :
     \E r \in {encoder_layer(g, enc_vl_input, bBias, n_head_test, d_head, d_head,
                             hidden_size, d_inner, TestConfig,
                             call.name \o "_vlayer_" \o str(i))} :
        /\ idx' = i
        /\ g' = r.g
        /\ enc_vl_output' = r.out
        /\ enc_vl_input' = r.out
        /\ built' = Append(built, LayerBuilt("visual", i,
                             call.name \o "_vlayer_" \o str(i),
                             None, enc_vl_input, None, r.out, g, r.g))
  /\ pos' = pos + 1
  /\ UNCHANGED <<ioVars, pc, call, ret, cache, ncalls, out, v_start, t_start, block,
                 v_end, t_end, zi, enc_input, enc_output>>

\* the visual loop of this block is over
VisualDone ==
  /\ pc = "visual"
  /\ pos >= Len(range(v_start, v_end))
  /\ pos' = 0
  /\ pc' = "co"
  /\ UNCHANGED <<ioVars, g, call, ret, cache, ncalls, out, encVars>>

\* enc_output, enc_vl_output = encoder_co_layer(enc_input, enc_vl_input, ...)
\* and the end of the loop body
CoLayer ==
  /\ pc = "co"
  /\ \E r \in {encoder_co_layer(g, enc_input, enc_vl_input, abBias, n_head_test,
                                d_head, d_head, hidden_size, d_inner, hidden_size,
                                d_inner, TestConfig,
                                call.name \o "_colayer_" \o str(block))} :
        /\ g' = r.g
        /\ enc_output' = r.out /\ enc_vl_output' = r.vl_out
        /\ enc_input' = r.out /\ enc_vl_input' = r.vl_out
        /\ built' = Append(built, LayerBuilt("co", block,
                             call.name \o "_colayer_" \o str(block),
                             enc_input, enc_vl_input, r.out, r.vl_out, g, r.g))
  /\ block' = block + 1
  /\ v_start' = v_end
  /\ t_start' = t_end
  /\ pc' = "zip"
  /\ UNCHANGED <<ioVars, call, ret, cache, ncalls, pos, out, v_end, t_end, idx, zi>>

\* the zip yielded nothing: enc_output is read before it is assigned
FinalTextUnbound ==
  /\ pc = "final_text"
  /\ enc_output = Unbound
  /\ ret' = [NoLayerRet EXCEPT !.raised = "UnboundLocalError"]
  /\ pc' = "raised"
  /\ UNCHANGED <<ioVars, g, call, cache, ncalls, pos, out, encVars>>

\* enc_output = encoder_layer(enc_output, ..., name + '_layer_' + str(t_end))
FinalText ==
  /\ pc = "final_text"
  /\ enc_output # Unbound
  /\ \E r \in {encoder_layer(g, enc_output, aBias, n_head_test, d_head, d_head,
                             hidden_size, d_inner, TestConfig,
                             call.name \o "_layer_" \o str(t_end))} :
        /\ g' = r.g
        /\ enc_output' = r.out
        /\ built' = Append(built, LayerBuilt("text", t_end,
                             call.name \o "_layer_" \o str(t_end),
                             enc_output, None, r.out, None, g, r.g))
  /\ pc' = "final_visual"
  /\ UNCHANGED <<ioVars, call, ret, cache, ncalls, pos, out, v_start, t_start, block,
                 v_end, t_end, idx, zi, enc_input, enc_vl_input, enc_vl_output>>

\* enc_vl_output = encoder_layer(enc_vl_output, ..., name + '_vlayer_' + str(v_end))
FinalVisual ==
  /\ pc = "final_visual"
  /\ \E r \in {encoder_layer(g, enc_vl_output, bBias, n_head_test, d_head, d_head,
                             hidden_size, d_inner, TestConfig,
                             call.name \o "_vlayer_" \o str(v_end))} :
        /\ g' = r.g
        /\ enc_vl_output' = r.out
        /\ built' = Append(built, LayerBuilt("visual", v_end,
                             call.name \o "_vlayer_" \o str(v_end),
                             None, enc_vl_output, None, r.out, g, r.g))
  /\ pc' = "post_encoder"
  /\ UNCHANGED <<ioVars, call, ret, cache, ncalls, pos, out, v_start, t_start, block,
                 v_end, t_end, idx, zi, enc_input, enc_vl_input, enc_output>>

\* the two pre_process_layer calls and the return
PostEncoder ==
  /\ pc = "post_encoder"
  /\ \E r \in {pre_process_layer(g, enc_output, TestConfig.preprocess_cmd,
                                 TestConfig.prepostprocess_dropout,
                                 TestConfig.seed, "post_encoder")} :
     \E q \in {pre_process_layer(r.g, enc_vl_output, TestConfig.preprocess_cmd,
                                 TestConfig.prepostprocess_dropout,
                                 TestConfig.seed, "vl_post_encoder")} :
        /\ g' = q.g
        /\ enc_output' = r.out
        /\ enc_vl_output' = q.out
        /\ ret' = [NoLayerRet EXCEPT !.out = r.out, !.vl_out = q.out]
  /\ pc' = "returned"
  /\ UNCHANGED <<ioVars, call, cache, ncalls, pos, out, v_start, t_start, block,
                 v_end, t_end, idx, zi, enc_input, enc_vl_input, built>>

NextEnc ==
  \/ EncEnter \/ ZipNext \/ ZipEnd
  \/ TextLayer \/ TextDone \/ VisualLayer \/ VisualDone \/ CoLayer
  \/ FinalTextUnbound \/ FinalText \/ FinalVisual \/ PostEncoder

SpecEnc == InitEnc /\ [][NextEnc]_vars

(***************************************************************************)
(* Reading the layers built                                                *)
(***************************************************************************)
NonDecreasing(xs) == \A i \in 1..(Len(xs) - 1) : xs[i] <= xs[i + 1]

\* non-empty, equal-length, non-decreasing, non-negative schedules
ScheduleOk ==
  /\ Len(call.t_biattention_id) >= 1
  /\ Len(call.v_biattention_id) = Len(call.t_biattention_id)
  /\ NonDecreasing(call.t_biattention_id) /\ NonDecreasing(call.v_biattention_id)
  /\ \A i \in DOMAIN call.t_biattention_id : call.t_biattention_id[i] >= 0
  /\ \A i \in DOMAIN call.v_biattention_id : call.v_biattention_id[i] >= 0

\* the steps of a kind built before step p, and all of them
Before(p, kind) == {q \in 1..(p - 1) : built[q].kind = kind}
StepsOf(kind) == {q \in DOMAIN built : built[q].kind = kind}
IdxOf(qs) == {built[q].idx : q \in qs}

Latest(qs) == CHOOSE q \in qs : \A r \in qs : r <= q

\* what the previous step of the text (visual) stream gave, or the argument
PrevOut(p) ==
  LET qs == Before(p, "text") \cup Before(p, "co")
  IN IF qs = {} THEN dA ELSE built[Latest(qs)].out
PrevVlOut(p) ==
  LET qs == Before(p, "visual") \cup Before(p, "co")
  IN IF qs = {} THEN dB ELSE built[Latest(qs)].vl_out

\* the parameter names of the operators step p appended
ParamsOf(p) ==
  {g.ops[i].name : i \in built[p].from..built[p].to} \ {""}

\* an operator step p appended reads (writes) the variable x
Reads(p, x) ==
  \E i \in built[p].from..built[p].to :
    \E j \in DOMAIN g.ops[i].ins : g.ops[i].ins[j] = x
Writes(p, x) == \E i \in built[p].from..built[p].to : g.ops[i].out = x

\* C1: for non-empty, equal-length, non-decreasing, non-negative schedules,
\* co-layer k is built after exactly the text layers 0 .. t_biattention_id[k]-1
\* and the visual layers 0 .. v_biattention_id[k]-1 (once each) and before
\* text layer t_biattention_id[k] and visual layer v_biattention_id[k]; the
\* layers of a stream are built in ascending index order, and every step takes
\* as input what the previous step of the same stream returned.
C1_InterleavingOrder ==
  ScheduleOk =>
    /\ \A p \in DOMAIN built :
         /\ built[p].kind = "co" =>
              LET k == built[p].idx
              IN /\ k \in 0..(Len(call.t_biattention_id) - 1)
                 /\ IdxOf(Before(p, "text")) = 0..(call.t_biattention_id[k + 1] - 1)
                 /\ Cardinality(Before(p, "text")) = call.t_biattention_id[k + 1]
                 /\ IdxOf(Before(p, "visual")) = 0..(call.v_biattention_id[k + 1] - 1)
                 /\ Cardinality(Before(p, "visual")) = call.v_biattention_id[k + 1]
                 /\ IdxOf(Before(p, "co")) = 0..(k - 1)
         /\ \A q \in Before(p, built[p].kind) : built[q].idx < built[p].idx
         /\ built[p].kind \in {"text", "co"} => built[p].input = PrevOut(p)
         /\ built[p].kind \in {"visual", "co"} => built[p].vl_input = PrevVlOut(p)
         /\ built[p].to <= Len(g.ops)
         /\ built[p].kind \in {"text", "co"} =>
              Reads(p, built[p].input) /\ Writes(p, built[p].out)
         /\ built[p].kind \in {"visual", "co"} =>
              Reads(p, built[p].vl_input) /\ Writes(p, built[p].vl_out)
    /\ pc = "returned" =>
         \A k \in 0..(Len(call.t_biattention_id) - 1) :
           \E p \in StepsOf("co") :
             /\ built[p].idx = k
             /\ \E q \in StepsOf("text") :
                  q > p /\ built[q].idx = call.t_biattention_id[k + 1]
             /\ \E q \in StepsOf("visual") :
                  q > p /\ built[q].idx = call.v_biattention_id[k + 1]

\* the call with schedules [0, 1] and [1, 2] returned: text 0, co 0, text 1,
\* visual 0, co 1, text 2, visual 1
C1_Witness ==
  /\ pc = "returned"
  /\ call.v_biattention_id = <<0, 1>> /\ call.t_biattention_id = <<1, 2>>
  /\ [p \in DOMAIN built |-> built[p].kind]
       = <<"text", "co", "text", "visual", "co", "text", "visual">>

\* C2: for non-empty, equal-length, non-decreasing, non-negative schedules no
\* layer name is used twice and no two layers share a parameter name; a call
\* that returned built exactly one text layer name+'_layer_'+i for each i in
\* 0 .. last(t_biattention_id), one visual layer name+'_vlayer_'+j for each j
\* in 0 .. last(v_biattention_id) and one co-layer name+'_colayer_'+k for each
\* block k; with the default schedules that is 24, 6 and 6 layers.
C2_OneLayerPerName ==
  ScheduleOk =>
    /\ \A p, q \in DOMAIN built :
         p # q => /\ built[p].name # built[q].name
                  /\ ParamsOf(p) \cap ParamsOf(q) = {}
    /\ \A p \in DOMAIN built : ParamsOf(p) # {}
    /\ pc = "returned" =>
         LET n == Len(call.t_biattention_id)
             last_t == call.t_biattention_id[n]
             last_v == call.v_biattention_id[n]
         IN /\ {built[p].name : p \in StepsOf("text")}
                 = {call.name \o "_layer_" \o str(i) : i \in 0..last_t}
            /\ Cardinality(StepsOf("text")) = last_t + 1
            /\ {built[p].name : p \in StepsOf("visual")}
                 = {call.name \o "_vlayer_" \o str(j) : j \in 0..last_v}
            /\ Cardinality(StepsOf("visual")) = last_v + 1
            /\ {built[p].name : p \in StepsOf("co")}
                 = {call.name \o "_colayer_" \o str(k) : k \in 0..(n - 1)}
            /\ Cardinality(StepsOf("co")) = n
            /\ call = DefaultSchedule =>
                 /\ Cardinality(StepsOf("text")) = 24
                 /\ Cardinality(StepsOf("visual")) = 6
                 /\ Cardinality(StepsOf("co")) = 6
                 /\ \E p \in StepsOf("text") : built[p].name = "encoder_layer_23"
                 /\ \E p \in StepsOf("text") : built[p].name = "encoder_layer_3"
                 /\ \E p \in StepsOf("visual") : built[p].name = "encoder_vlayer_5"
                 /\ \E p \in StepsOf("co") : built[p].name = "encoder_colayer_5"

\* the call with the default schedules returned
C2_Witness ==
  /\ pc = "returned"
  /\ call = DefaultSchedule
  /\ Len(built) = 36

(***************************************************************************)
(* init_pretraining_params: the assertion on the path, then load_vars with *)
(* the predicate existed_params over the variables of main_program         *)
(***************************************************************************)
MaxVars == 3

\* os.path.join(a, b) of a relative b
os_path_join(a, b) == a \o "/" \o b

\* os.path.exists(p) in the file system files
os_path_exists(files, p) == p \in files

\* the names of the variables a program can hold
VarName(i) == "fc_" \o str(i) \o ".w_0"

\* isinstance(var, Parameter) or a plain Variable
VarKinds == {"Parameter", "Variable"}

\* the programs handed in: up to MaxVars variables, parameters or not
Programs ==
  UNION {{[i \in 1..n |-> [name |-> VarName(i), kind |-> kinds[i]]] :
            kinds \in [1..n -> VarKinds]} : n \in 0..MaxVars}

\* a directory that is not the one asked for, holding a file for every name
Elsewhere == {"elsewhere"} \cup {os_path_join("elsewhere", VarName(i)) : i \in 1..MaxVars}

\* the file systems: the directory is missing, or holds files for some names
FileSystems ==
  {Elsewhere} \cup
  {Elsewhere \cup {"params"} \cup {os_path_join("params", VarName(i)) : i \in held} :
     held \in SUBSET (1..MaxVars)}

\* what the startup program left in the scope
Startup == "startup"

InitParams ==
  /\ g = EmptyProgram
  /\ pc = "entry"
  /\ call \in [pretraining_params_path : {"params"}, main_program : Programs]
  /\ fs \in FileSystems
  /\ scope = [i \in DOMAIN call.main_program |-> Startup]
  /\ stdout = <<>>
  /\ selected = <<>>
  /\ ret = NoRet
  /\ cache = [k |-> None, v |-> None]
  /\ ncalls = 0
  /\ pos = 0 /\ out = None
  /\ EncIdle

\* a predicate that lets every variable with a file through
existed_params_any_variable(var, path, files) ==
  [printed |-> "exitsted: " \o var.name,
   result |-> os_path_exists(files, os_path_join(path, var.name))]

\* existed_params(var): what it prints and what it returns
existed_params(var, path, files) ==
  IF var.kind # "Parameter"
  THEN [printed |-> "dont exitsted: " \o var.name, result |-> FALSE]
  ELSE [printed |-> "exitsted: " \o var.name,
        result |-> os_path_exists(files, os_path_join(path, var.name))]

\* assert os.path.exists(pretraining_params_path) fails
AssertFails ==
  /\ pc = "entry"
  /\ ~os_path_exists(fs, call.pretraining_params_path)
  /\ ret' = [NoRet EXCEPT !.raised = "AssertionError"]
  /\ pc' = "raised"
  /\ UNCHANGED <<g, call, cache, ncalls, pos, out, encVars, ioVars>>

\* the assertion holds: load_vars starts to filter main_program.list_vars()
AssertPasses ==
  /\ pc = "entry"
  /\ os_path_exists(fs, call.pretraining_params_path)
  /\ pos' = 0
  /\ pc' = "filter"
  /\ UNCHANGED <<g, call, ret, cache, ncalls, out, encVars, ioVars>>

\* load_vars: predicate(var) for the next variable
FilterVar ==
  /\ pc = "filter"
  /\ pos < Len(call.main_program)
  /\ \E r \in {existed_params(call.main_program[pos + 1],
                              call.pretraining_params_path, fs)} :
        /\ stdout' = Append(stdout, r.printed)
        /\ selected' = IF r.result THEN Append(selected, pos + 1) ELSE selected
  /\ pos' = pos + 1
  /\ UNCHANGED <<g, pc, call, ret, cache, ncalls, out, encVars, fs, scope>>

\* load_vars: every variable has been tried
FilterDone ==
  /\ pc = "filter"
  /\ pos >= Len(call.main_program)
  /\ pos' = 0
  /\ pc' = "load"
  /\ UNCHANGED <<g, call, ret, cache, ncalls, out, encVars, ioVars>>

\* load_vars: the next selected variable takes the content of its file
LoadVar ==
  /\ pc = "load"
  /\ pos < Len(selected)
  /\ scope' = [scope EXCEPT ![selected[pos + 1]] =
                 os_path_join(call.pretraining_params_path,
                              call.main_program[selected[pos + 1]].name)]
  /\ pos' = pos + 1
  /\ UNCHANGED <<g, pc, call, ret, cache, ncalls, out, encVars, fs, stdout, selected>>

\* print("Load pretraining parameters from ...") and return
LoadDone ==
  /\ pc = "load"
  /\ pos >= Len(selected)
  /\ stdout' = Append(stdout, "Load pretraining parameters from "
                                \o call.pretraining_params_path \o ".")
  /\ pc' = "returned"
  /\ UNCHANGED <<g, call, ret, cache, ncalls, pos, out, encVars, fs, scope, selected>>

NextParams ==
  \/ AssertFails \/ AssertPasses
  \/ FilterVar \/ FilterDone \/ LoadVar \/ LoadDone

SpecParams == InitParams /\ [][NextParams]_vars

\* the variable i of main_program is a Parameter with a file of its name
\* under pretraining_params_path
HasFile(i) ==
  /\ call.main_program[i].kind = "Parameter"
  /\ ("params/" \o call.main_program[i].name) \in fs

\* C11: when pretraining_params_path does not exist the call raises an
\* AssertionError and no variable is ever loaded; otherwise it raises nothing,
\* a variable is loaded exactly when it is a Parameter with a file of its name
\* under the path, and every other variable keeps its value.
C11_LoadsExistingParameters ==
  /\ "params" \notin fs =>
       /\ pc \in {"entry", "raised"}
       /\ pc = "raised" => ret.raised = "AssertionError"
       /\ selected = <<>>
       /\ \A i \in DOMAIN scope : scope[i] = Startup
  /\ "params" \in fs =>
       /\ pc # "raised" /\ ret.raised = ""
       /\ \A i \in DOMAIN scope : scope[i] # Startup => HasFile(i)
       /\ \A i \in DOMAIN scope : ~HasFile(i) => scope[i] = Startup
       /\ pc = "returned" =>
            \A i \in DOMAIN scope :
              IF HasFile(i)
              THEN scope[i] = "params/" \o call.main_program[i].name
              ELSE scope[i] = Startup

\* a call returned that loaded a parameter, left a parameter with no file
\* alone and left a non-parameter with a file alone
C11_Witness ==
  /\ pc = "returned"
  /\ \E i, j, k \in DOMAIN scope :
       /\ HasFile(i) /\ scope[i] # Startup
       /\ call.main_program[j].kind = "Parameter" /\ ~HasFile(j)
       /\ scope[j] = Startup
       /\ call.main_program[k].kind = "Variable"
       /\ ("params/" \o call.main_program[k].name) \in fs
       /\ scope[k] = Startup

\* the call on a missing path raised
C11_WitnessMissingPath ==
  /\ pc = "raised" /\ "params" \notin fs /\ Len(call.main_program) >= 1

====
